---------------------------- MODULE Spec2Model ----------------------------
(***************************************************************************)
(* reSID-fp waveform generator (vice/src/resid-fp/wave.h): the 24-bit      *)
(* phase accumulator, the 23-bit noise shift register, hard sync between   *)
(* the oscillators of a ring, and the table selection of output().         *)
(***************************************************************************)
EXTENDS Integers, FiniteSets, Sequences, TLC

(***************************************************************************)
(* Bounds of the model.                                                    *)
(***************************************************************************)
\* Largest ring of oscillators explored.
MaxOsc == 3
\* Number of chip cycles (clock pass + synchronize pass) explored.
MaxCycles == 2
\* Number of calls explored when clock/synchronize interleave freely.
MaxCalls == 4
\* Number of cycles explored in the noise specification.
NoiseCycles == 17
\* Largest noise-overwrite countdown drawn for a held test bit.
MaxDelay == 3
\* Extra cycles explored after the accumulator of the wrap run is back at 0.
WrapExtra == 2

(***************************************************************************)
(* Program constants.                                                      *)
(***************************************************************************)
\* accumulator &= 0xffffff
AccMask == 16777215
\* accumulator & 0x800000
MsbMask == 8388608
\* accumulator & 0x080000
Bit19Mask == 524288
\* shift_register |= 0x7ffffc
ForcedBits == 8388604
\* 0x7fffff, the base of the combined-waveform clear mask
ShiftMask == 8388607
\* reg24 is an unsigned int: the shift register holds 32 bits
RegBits == 32
\* phase = accumulator >> 12
PhaseShift == 12
\* phase ^= 0x800
RingFlip == 2048

VARIABLES
    n,                       \* number of oscillators in the ring
    accumulator,             \* reg24 accumulator
    accumulator_prev,        \* clock()'s local accumulator_prev
    msb_rising,              \* bool msb_rising
    shift_register,          \* reg24 shift_register, as a vector of RegBits bits
    noise_output_cached,     \* reg12 noise_output_cached
    noise_output_cached_dac, \* the dac[] indices summed onto wave_zero
    noise_overwrite_delay,   \* int noise_overwrite_delay
    freq,                    \* reg16 freq
    pw,                      \* reg12 pw
    waveform,                \* reg8 waveform
    test,                    \* bool test
    ring_mod,                \* bool ring_mod
    sync,                    \* bool sync
    clocked,                 \* oscillators clock()'ed in the current cycle
    synced,                  \* oscillators synchronize()'d in the current cycle
    cycle,                   \* completed cycles (calls, when interleaved freely)
    clock_acc,               \* the accumulator as the last clock() call left it
    start_acc,               \* the accumulator when the current cycle began
    out                      \* what the last output() call read

vars == <<n, accumulator, accumulator_prev, msb_rising, shift_register,
          noise_output_cached, noise_output_cached_dac, noise_overwrite_delay,
          freq, pw, waveform, test, ring_mod, sync,
          clocked, synced, cycle, clock_acc, start_acc, out>>

\* The registers no clock() or synchronize() writes.
regs == <<n, freq, pw, waveform, test, ring_mod, sync>>

\* The noise generator's state.
noise == <<shift_register, noise_output_cached, noise_output_cached_dac,
           noise_overwrite_delay>>

Osc == 0 .. (n - 1)

(***************************************************************************)
(* Integer and bit-vector helpers.                                         *)
(***************************************************************************)
\* x & mask for a single-bit mask: nonzero iff the bit is set.
TestMask(x, mask) == (x \div mask) % 2 = 1

RegIdx == 0 .. (RegBits - 1)

\* An unsigned value below 2^31 as a vector of RegBits bits.
BV(x) == [k \in RegIdx |-> IF k < 31 THEN (x \div (2 ^ k)) % 2 ELSE 0]

BVAnd(a, b) == [k \in RegIdx |-> a[k] * b[k]]

BVOr(a, b) == [k \in RegIdx |-> IF a[k] + b[k] > 0 THEN 1 ELSE 0]

BVXor(a, b) == [k \in RegIdx |-> (a[k] + b[k]) % 2]

\* a >> s
BVShr(a, s) == [k \in RegIdx |-> IF k + s < RegBits THEN a[k + s] ELSE 0]

\* a << 1, in RegBits bits
BVShl1(a) == [k \in RegIdx |-> IF k = 0 THEN 0 ELSE a[k - 1]]

\* Bits 0..22 of the register, as a number.
RECURSIVE BVLow(_, _)
BVLow(a, k) == IF k = 0 THEN 0 ELSE a[k - 1] * (2 ^ (k - 1)) + BVLow(a, k - 1)

Low23(a) == BVLow(a, 23)

\* The register holds nothing above bit 22.
Fits23(a) == \A k \in RegIdx : k >= 23 => a[k] = 0


(***************************************************************************)
(* The sync network: oscillator i's sync source is its predecessor in the  *)
(* ring and its sync destination its successor.                            *)
(***************************************************************************)
sync_source(i) == (i + n - 1) % n

sync_dest(i) == (i + 1) % n

(***************************************************************************)
(* clock(): the accumulator.                                               *)
(***************************************************************************)
\* The addition without the mask.
ClockAccumulatorNoMask(acc, f) == acc + f

\* The addition masked to 23 bits.
ClockAccumulatorMask23(acc, f) == (acc + f) % MsbMask

\* accumulator += freq; accumulator &= 0xffffff;
ClockAccumulator(acc, f) == (acc + f) % (AccMask + 1)

\* !(accumulator_prev & 0x800000) && (accumulator & 0x800000)
MsbRising(prev, acc) == ~TestMask(prev, MsbMask) /\ TestMask(acc, MsbMask)

\* Bit 19 tested by level instead of by edge.
Bit19Set(prev, acc) == TestMask(acc, Bit19Mask)

\* !(accumulator_prev & 0x080000) && (accumulator & 0x080000)
Bit19Rising(prev, acc) == ~TestMask(prev, Bit19Mask) /\ TestMask(acc, Bit19Mask)

(***************************************************************************)
(* The noise generator.                                                    *)
(***************************************************************************)
\* The feedback taken from bits 22 and 16.
FeedbackBitTap16(sr) == BVAnd(BVXor(BVShr(sr, 22), BVShr(sr, 16)), BV(1))

\* bit0 = ((shift_register >> 22) ^ (shift_register >> 17)) & 0x1
FeedbackBit(sr) == BVAnd(BVXor(BVShr(sr, 22), BVShr(sr, 17)), BV(1))

\* The shift without the feedback bit.
NoiseShiftNoFeedback(sr) == BVShl1(sr)

\* shift_register <<= 1; shift_register |= bit0;
NoiseShift(sr) == BVOr(BVShl1(sr), FeedbackBit(sr))

\* The register bits the noise output is taken from.
NoiseTaps == {22, 20, 16, 13, 11, 7, 4, 2}

\* 0x7fffff^(1<<22)^(1<<20)^(1<<16)^(1<<13)^(1<<11)^(1<<7)^(1<<4)^(1<<2)
ClearMask ==
    [k \in RegIdx |-> IF k \in NoiseTaps THEN 1 - BV(ShiftMask)[k]
                                         ELSE BV(ShiftMask)[k]]

\* The clearing mask applied from code 8 up.
NoiseClearFromEight(sr, wf) == IF wf >= 8 THEN BVAnd(sr, ClearMask) ELSE sr

\* if (waveform > 8) shift_register &= ClearMask
NoiseClear(sr, wf) == IF wf > 8 THEN BVAnd(sr, ClearMask) ELSE sr

\* The shift register clock_noise(clock) leaves.
ClockNoiseRegister(sr, wf, clk) ==
    NoiseClear(IF clk THEN NoiseShift(sr) ELSE sr, wf)

\* outputN___(): the 12-bit noise word of a shift register.
outputN___(sr) ==
      sr[22] * 2048 + sr[20] * 1024 + sr[16] * 512 + sr[13] * 256
    + sr[11] * 128 + sr[7] * 64 + sr[4] * 32 + sr[2] * 16

\* The dac[i] added to wave_zero: those with noise_output_cached & (1 << i).
DacSum(word) == {b \in 0 .. 11 : (word \div (2 ^ b)) % 2 = 1}

\* The forced pattern and-ed into the register.
ForceNoiseAnd(sr) == BVAnd(sr, BV(ForcedBits))

\* shift_register |= 0x7ffffc
ForceNoise(sr) == BVOr(sr, BV(ForcedBits))

\* clock_noise(clock) without the refresh of the cached sample.
clock_noiseNoRefresh(i, clk) ==
    LET sr == ClockNoiseRegister(shift_register[i], waveform[i], clk)
    IN  /\ shift_register' = [shift_register EXCEPT ![i] = sr]
        /\ UNCHANGED <<noise_output_cached, noise_output_cached_dac,
                       noise_overwrite_delay>>

\* clock_noise(clock) of oscillator i.
clock_noise(i, clk) ==
    LET sr == ClockNoiseRegister(shift_register[i], waveform[i], clk)
    IN  /\ shift_register' = [shift_register EXCEPT ![i] = sr]
        /\ noise_output_cached' =
               [noise_output_cached EXCEPT ![i] = outputN___(sr)]
        /\ noise_output_cached_dac' =
               [noise_output_cached_dac EXCEPT ![i] = DacSum(outputN___(sr))]
        /\ UNCHANGED noise_overwrite_delay

\* The test branch without its outer test of the countdown.
ClockTestNoGuard(i) ==
    /\ noise_overwrite_delay' = [noise_overwrite_delay EXCEPT ![i] = @ - 1]
    /\ IF noise_overwrite_delay[i] - 1 = 0
       THEN LET sr == ForceNoise(shift_register[i])
            IN  /\ shift_register' = [shift_register EXCEPT ![i] = sr]
                /\ noise_output_cached' =
                       [noise_output_cached EXCEPT ![i] = outputN___(sr)]
                /\ noise_output_cached_dac' =
                       [noise_output_cached_dac EXCEPT
                            ![i] = DacSum(outputN___(sr))]
       ELSE UNCHANGED <<shift_register, noise_output_cached,
                        noise_output_cached_dac>>
    /\ UNCHANGED <<accumulator, accumulator_prev, msb_rising>>

\* The test branch of clock(): only the analog fade of the noise register.
ClockTest(i) ==
    /\ IF noise_overwrite_delay[i] # 0
       THEN /\ noise_overwrite_delay' =
                   [noise_overwrite_delay EXCEPT ![i] = @ - 1]
            /\ IF noise_overwrite_delay[i] - 1 = 0
               THEN LET sr == ForceNoise(shift_register[i])
                    IN  /\ shift_register' = [shift_register EXCEPT ![i] = sr]
                        /\ noise_output_cached' =
                               [noise_output_cached EXCEPT ![i] = outputN___(sr)]
                        /\ noise_output_cached_dac' =
                               [noise_output_cached_dac EXCEPT
                                    ![i] = DacSum(outputN___(sr))]
               ELSE UNCHANGED <<shift_register, noise_output_cached,
                                noise_output_cached_dac>>
       ELSE UNCHANGED noise
    /\ UNCHANGED <<accumulator, accumulator_prev, msb_rising>>

\* The running branch of clock().
ClockRun(i) ==
    LET acc == ClockAccumulator(accumulator[i], freq[i])
    IN  /\ accumulator_prev' = [accumulator_prev EXCEPT ![i] = accumulator[i]]
        /\ accumulator' = [accumulator EXCEPT ![i] = acc]
        /\ msb_rising' =
               [msb_rising EXCEPT ![i] = MsbRising(accumulator[i], acc)]
        /\ IF Bit19Rising(accumulator[i], acc)
           THEN clock_noise(i, TRUE)
           ELSE UNCHANGED noise

\* WaveformGeneratorFP::clock() of oscillator i.
clock(i) == IF test[i] THEN ClockTest(i) ELSE ClockRun(i)

(***************************************************************************)
(* synchronize().                                                          *)
(***************************************************************************)
\* synchronize() without the special case of a synced sync source.
SyncCondNoCorner(i) == msb_rising[i] /\ sync[sync_dest(i)]

\* synchronize() with the special case testing a source whose MSB did not rise.
SyncCondCornerNegated(i) ==
    /\ msb_rising[i]
    /\ sync[sync_dest(i)]
    /\ ~(sync[i] /\ ~msb_rising[sync_source(i)])

\* synchronize() testing its own sync bit in place of its destination's.
SyncCondOwnSync(i) ==
    /\ msb_rising[i]
    /\ sync[i]
    /\ ~(sync[i] /\ msb_rising[sync_source(i)])

\* msb_rising && sync_dest->sync && !(sync && sync_source->msb_rising)
SyncCond(i) ==
    /\ msb_rising[i]
    /\ sync[sync_dest(i)]
    /\ ~(sync[i] /\ msb_rising[sync_source(i)])

\* synchronize() that clears its own msb_rising once it has used it.
synchronizeConsuming(i) ==
    /\ accumulator' = IF SyncCond(i)
                      THEN [accumulator EXCEPT ![sync_dest(i)] = 0]
                      ELSE accumulator
    /\ msb_rising' = [msb_rising EXCEPT ![i] = FALSE]
    /\ UNCHANGED <<accumulator_prev, noise>>

\* WaveformGeneratorFP::synchronize() of oscillator i.
synchronize(i) ==
    /\ accumulator' = IF SyncCond(i)
                      THEN [accumulator EXCEPT ![sync_dest(i)] = 0]
                      ELSE accumulator
    /\ UNCHANGED <<accumulator_prev, msb_rising, noise>>

(***************************************************************************)
(* output(): which sample is read.                                         *)
(***************************************************************************)
\* reg12 phase = accumulator >> 12
Phase(acc) == acc \div (2 ^ PhaseShift)

\* The pulse comparison off by one.
VariantStrict(wf, tst, phase, width) ==
    IF wf >= 4 /\ (tst \/ phase > width) THEN 3 ELSE -1

\* The pulse comparison without the test bit.
VariantNoTest(wf, tst, phase, width) ==
    IF wf >= 4 /\ phase >= width THEN 3 ELSE -1

\* waveform >= 4 && (test || phase >= pw) ? 3 : -1
Variant(wf, tst, phase, width) ==
    IF wf >= 4 /\ (tst \/ phase >= width) THEN 3 ELSE -1

\* The ring modulation applied to every code with the triangle bit.
RingModFlipsAnyTriangle(wf, rm, srcacc) ==
    (wf % 2) = 1 /\ rm /\ TestMask(srcacc, MsbMask)

\* (waveform & 3) == 1 && ring_mod && (sync_source->accumulator & 0x800000)
RingModFlips(wf, rm, srcacc) ==
    (wf % 4) = 1 /\ rm /\ TestMask(srcacc, MsbMask)

\* phase ^= 0x800
FlipPhase(phase) ==
    IF TestMask(phase, RingFlip) THEN phase - RingFlip ELSE phase + RingFlip

\* output() with the noise test widened to every code from 8 up.
outputNoiseFromEight(i) ==
    IF waveform[i] = 0 THEN [src |-> "previous_dac"]
    ELSE IF waveform[i] >= 8 THEN [src |-> "noise_output_cached_dac"]
    ELSE LET phase == Phase(accumulator[i])
             variant == Variant(waveform[i], test[i], phase, pw[i])
             flip == RingModFlips(waveform[i], ring_mod[i],
                                  accumulator[sync_source(i)])
         IN  [src |-> "wftable",
              index |-> waveform[i] + variant,
              phase |-> IF flip THEN FlipPhase(phase) ELSE phase]

\* output() with the pulse comparison made on the phase after the
\* ring-mod flip.
outputCompareAfterFlip(i) ==
    IF waveform[i] = 0 THEN [src |-> "previous_dac"]
    ELSE IF waveform[i] = 8 THEN [src |-> "noise_output_cached_dac"]
    ELSE IF waveform[i] > 8 THEN [src |-> "wave_zero"]
    ELSE LET flip == RingModFlips(waveform[i], ring_mod[i],
                                  accumulator[sync_source(i)])
             phase == IF flip THEN FlipPhase(Phase(accumulator[i]))
                              ELSE Phase(accumulator[i])
             variant == Variant(waveform[i], test[i], phase, pw[i])
         IN  [src |-> "wftable",
              index |-> waveform[i] + variant,
              phase |-> phase]

\* WaveformGeneratorFP::output() of oscillator i.
output(i) ==
    IF waveform[i] = 0 THEN [src |-> "previous_dac"]
    ELSE IF waveform[i] = 8 THEN [src |-> "noise_output_cached_dac"]
    ELSE IF waveform[i] > 8 THEN [src |-> "wave_zero"]
    ELSE LET phase == Phase(accumulator[i])
             variant == Variant(waveform[i], test[i], phase, pw[i])
             flip == RingModFlips(waveform[i], ring_mod[i],
                                  accumulator[sync_source(i)])
         IN  [src |-> "wftable",
              index |-> waveform[i] + variant,
              phase |-> IF flip THEN FlipPhase(phase) ELSE phase]

(***************************************************************************)
(* The chip's cycle: clock() for every oscillator, then synchronize() for  *)
(* every oscillator.                                                       *)
(***************************************************************************)
\* One clock() call of the clock pass.
ClockStep(i, limit) ==
    /\ cycle < limit
    /\ i \notin clocked
    /\ clock(i)
    /\ clocked' = clocked \cup {i}
    /\ clock_acc' = [clock_acc EXCEPT ![i] = accumulator'[i]]
    /\ start_acc' = IF clocked = {} THEN accumulator ELSE start_acc
    /\ UNCHANGED <<regs, synced, cycle, out>>

\* One synchronize() call of the synchronize pass; the last one ends the cycle.
SyncStep(i) ==
    /\ clocked = Osc
    /\ i \notin synced
    /\ synchronize(i)
    /\ IF synced \cup {i} = Osc
       THEN clocked' = {} /\ synced' = {} /\ cycle' = cycle + 1
       ELSE synced' = synced \cup {i} /\ UNCHANGED <<clocked, cycle>>
    /\ UNCHANGED <<regs, clock_acc, start_acc, out>>

\* The state a cycle leaves: both passes have run for every oscillator.
CycleDone == cycle > 0 /\ clocked = {} /\ synced = {}

(***************************************************************************)
(* Initial states.                                                         *)
(***************************************************************************)
\* <<accumulator, freq>> of a running oscillator: the MSB rises in the second
\* cycle, the MSB rises in the first cycle, the accumulator wraps in the first.
OscInputs == {<<8388606, 1>>, <<8388607, 1>>, <<16777215, 65535>>}

\* <<accumulator, freq, test, msb_rising>> of an oscillator between two
\* cycles: running, or held in test (accumulator zero) with msb_rising as the
\* last clock call before the test bit was set left it.
OscStates ==
    {<<in[1], in[2], FALSE, FALSE>> : in \in OscInputs}
        \cup {<<0, 1, TRUE, FALSE>>, <<0, 1, TRUE, TRUE>>}

\* The shift register and its cached output after the forced overwrite.
InitNoise ==
    /\ shift_register = [i \in Osc |-> BV(ForcedBits)]
    /\ noise_output_cached = [i \in Osc |-> outputN___(BV(ForcedBits))]
    /\ noise_output_cached_dac =
           [i \in Osc |-> DacSum(outputN___(BV(ForcedBits)))]
    /\ noise_overwrite_delay = [i \in Osc |-> 0]

\* No call has been made yet.
InitCalls ==
    /\ accumulator_prev = [i \in Osc |-> 0]
    /\ clocked = {}
    /\ synced = {}
    /\ cycle = 0
    /\ clock_acc = accumulator
    /\ start_acc = accumulator
    /\ out = [i \in Osc |-> [src |-> "none"]]

Init ==
    /\ n \in 1 .. MaxOsc
    /\ \E in \in [Osc -> OscStates] :
           /\ accumulator = [i \in Osc |-> in[i][1]]
           /\ freq = [i \in Osc |-> in[i][2]]
           /\ test = [i \in Osc |-> in[i][3]]
           /\ msb_rising = [i \in Osc |-> in[i][4]]
    /\ sync \in [Osc -> BOOLEAN]
    /\ pw = [i \in Osc |-> 0]
    /\ waveform = [i \in Osc |-> 0]
    /\ ring_mod = [i \in Osc |-> FALSE]
    /\ InitNoise
    /\ InitCalls

Next ==
    \/ \E i \in Osc : ClockStep(i, MaxCycles)
    \/ \E i \in Osc : SyncStep(i)

Spec == Init /\ [][Next]_vars

(***************************************************************************)
(* Hard sync.                                                              *)
(***************************************************************************)
\* C1: after a whole cycle (clock for every oscillator, then synchronize for
\* every oscillator) the accumulator of each oscillator d with sync source s
\* is 0 if s.msb_rising and d.sync and not (s.sync and the msb_rising of s's
\* own sync source), and otherwise the value d's own clock call left.
C1_HardSyncRule ==
    CycleDone =>
        \A d \in Osc :
            LET s == sync_source(d)
            IN  accumulator[d] =
                    IF /\ msb_rising[s]
                       /\ sync[d]
                       /\ ~(sync[s] /\ msb_rising[sync_source(s)])
                    THEN 0
                    ELSE clock_acc[d]

\* A cycle in which one oscillator was reset by its source and another,
\* whose source's MSB rose too, kept the value its clock call left.
C1_Witness ==
    /\ CycleDone
    /\ \E d \in Osc : /\ clock_acc[d] # 0
                      /\ accumulator[d] = 0
    /\ \E d \in Osc : /\ msb_rising[sync_source(d)]
                      /\ sync[d]
                      /\ accumulator[d] # 0

\* C2: two oscillators that are each other's sync source, both with sync
\* set: once clock has made msb_rising true for both, the synchronize pass
\* resets neither accumulator: each keeps the value its clock call left,
\* which is not zero when that call made the MSB rise.
C2_MutualSyncSuppressed ==
    \A a, b \in Osc :
        ( /\ a # b
          /\ sync_source(a) = b
          /\ sync_source(b) = a
          /\ sync[a] /\ sync[b]
          /\ msb_rising[a] /\ msb_rising[b]
          /\ (clocked = Osc \/ CycleDone) )
        => /\ accumulator[a] = clock_acc[a]
           /\ accumulator[b] = clock_acc[b]
           /\ ~test[a] => accumulator[a] # 0
           /\ ~test[b] => accumulator[b] # 0

\* The cycle of a mutually synced pair in which both MSBs rose is over.
C2_Witness ==
    /\ CycleDone
    /\ n = 2
    /\ \A i \in Osc : sync[i] /\ msb_rising[i] /\ ~test[i]
    /\ \A i \in Osc : TestMask(accumulator[i], MsbMask)

(***************************************************************************)
(* The control register, written between two cycles.  It selects the       *)
(* waveform and sets test, ring_mod and sync; the accumulator is set to    *)
(* zero when TEST is set.                                                  *)
(***************************************************************************)
ControlInputs == {0, 2, 8}

WriteCONTROL_REG(i, control) ==
    /\ clocked = {}
    /\ synced = {}
    /\ waveform' = [waveform EXCEPT ![i] = (control \div 16) % 16]
    /\ test' = [test EXCEPT ![i] = TestMask(control, 8)]
    /\ ring_mod' = [ring_mod EXCEPT ![i] = TestMask(control, 4)]
    /\ sync' = [sync EXCEPT ![i] = TestMask(control, 2)]
    /\ accumulator' = IF TestMask(control, 8)
                      THEN [accumulator EXCEPT ![i] = 0]
                      ELSE accumulator
    /\ UNCHANGED <<n, freq, pw, accumulator_prev, msb_rising, noise,
                   clocked, synced, cycle, clock_acc, start_acc, out>>

\* The oscillators after reset(), with a frequency written and a phase reached.
InitCtl ==
    /\ n \in 1 .. MaxOsc
    /\ \E in \in [Osc -> OscInputs] :
           /\ accumulator = [i \in Osc |-> in[i][1]]
           /\ freq = [i \in Osc |-> in[i][2]]
    /\ sync = [i \in Osc |-> FALSE]
    /\ test = [i \in Osc |-> FALSE]
    /\ msb_rising = [i \in Osc |-> FALSE]
    /\ pw = [i \in Osc |-> 0]
    /\ waveform = [i \in Osc |-> 0]
    /\ ring_mod = [i \in Osc |-> FALSE]
    /\ InitNoise
    /\ InitCalls

NextCtl ==
    \/ \E i \in Osc : ClockStep(i, MaxCycles)
    \/ \E i \in Osc : SyncStep(i)
    \/ \E i \in Osc : \E control \in ControlInputs : WriteCONTROL_REG(i, control)

SpecCtl == InitCtl /\ [][NextCtl]_vars

\* C3: after every clock call, test held or not, msb_rising is true iff bit
\* 23 of the accumulator was 0 before the call and 1 after it.
C3_MsbRisingCycleScoped ==
    [][\A i \in Osc :
          (i \in clocked' /\ i \notin clocked) =>
              (msb_rising'[i] <=>
                  /\ ~TestMask(accumulator[i], MsbMask)
                  /\ TestMask(accumulator'[i], MsbMask))]_vars

(***************************************************************************)
(* The noise generator of one oscillator.                                  *)
(***************************************************************************)
\* Shift registers below 2^23: zero, every single bit, both feedback taps
\* (17 and 22) together, and the patterns the forced overwrite leaves.
SrInputs ==
    {0, 4325376, 8388600, 8388604} \cup {2 ^ k : k \in 0 .. 22}

\* <<accumulator, freq>>: bit 19 rises in the first call, in the second, or
\* (with the largest frequency) in the first and again in the 17th.
NoiseOscInputs == {<<524287, 1>>, <<524286, 1>>, <<524287, 65535>>}

\* <<accumulator, freq, test>>: running, or held in test (accumulator zero).
NoiseOscStates ==
    {<<in[1], in[2], FALSE>> : in \in NoiseOscInputs} \cup {<<0, 1, TRUE>>}

InitNoiseGen ==
    /\ n = 1
    /\ \E in \in [Osc -> NoiseOscStates] :
           /\ accumulator = [i \in Osc |-> in[i][1]]
           /\ freq = [i \in Osc |-> in[i][2]]
           /\ test = [i \in Osc |-> in[i][3]]
    /\ \E sr \in [Osc -> SrInputs] :
           /\ shift_register = [i \in Osc |-> BV(sr[i])]
           /\ noise_output_cached = [i \in Osc |-> outputN___(BV(sr[i]))]
           /\ noise_output_cached_dac =
                  [i \in Osc |-> DacSum(outputN___(BV(sr[i])))]
    /\ noise_overwrite_delay \in [Osc -> 0 .. MaxDelay]
    /\ waveform \in [Osc -> 0 .. 15]
    /\ msb_rising = [i \in Osc |-> FALSE]
    /\ sync = [i \in Osc |-> FALSE]
    /\ pw = [i \in Osc |-> 0]
    /\ ring_mod = [i \in Osc |-> FALSE]
    /\ InitCalls

NextNoise ==
    \/ \E i \in Osc : ClockStep(i, NoiseCycles)
    \/ \E i \in Osc : SyncStep(i)

SpecNoise == InitNoiseGen /\ [][NextNoise]_vars

\* Some bit of 0..22 of the register is set.
NonZero23(sr) == \E k \in 0 .. 22 : sr[k] = 1

\* This step is a clock() call of oscillator i.
ClockCall(i) == i \in clocked' /\ i \notin clocked

\* C4: the noise shift register is a 23-bit value in every reachable state:
\* from a value below 2^23, any sequence of clock calls leaves it below 2^23.
C4_ShiftRegister23Bit == \A i \in Osc : Fits23(shift_register[i])

\* C5: from a register whose bits 0..22 are not all zero no clock or
\* synchronize call, for any waveform code 0..15, frequency and test
\* setting, reaches a register whose bits 0..22 are all zero.
C5_NeverAllZero ==
    [][\A i \in Osc :
          NonZero23(shift_register[i]) => NonZero23(shift_register'[i])]_vars

\* C5 as amended: the same, for the waveform codes 0..8 and, with the test
\* bit held, for every waveform code.
C5_NeverAllZeroAmended ==
    [][\A i \in Osc :
          (NonZero23(shift_register[i]) /\ (waveform[i] <= 8 \/ test[i]))
              => NonZero23(shift_register'[i])]_vars

\* The noise generator was clocked once, with a waveform code in 0..8, from
\* a register with only bit 22 set: the feedback bit keeps bits 0..22 nonzero.
C5_Witness ==
    \E i \in Osc :
        /\ i \in clocked
        /\ ~test[i]
        /\ waveform[i] <= 8
        /\ Bit19Rising(accumulator_prev[i], accumulator[i])
        /\ Low23(shift_register[i]) = 1
        /\ shift_register[i][23] = 1

(***************************************************************************)
(* Recovery of a zero register: test is held, with the countdown running,  *)
(* and the chip keeps clocking the oscillator.                             *)
(***************************************************************************)
InitRecover ==
    /\ n = 1
    /\ accumulator = [i \in Osc |-> 0]
    /\ freq \in [Osc -> {1, 65535}]
    /\ test = [i \in Osc |-> TRUE]
    /\ shift_register = [i \in Osc |-> BV(0)]
    /\ noise_output_cached = [i \in Osc |-> outputN___(BV(0))]
    /\ noise_output_cached_dac = [i \in Osc |-> DacSum(outputN___(BV(0)))]
    /\ noise_overwrite_delay \in [Osc -> 1 .. MaxDelay]
    /\ waveform \in [Osc -> 0 .. 15]
    /\ msb_rising = [i \in Osc |-> FALSE]
    /\ sync = [i \in Osc |-> FALSE]
    /\ pw = [i \in Osc |-> 0]
    /\ ring_mod = [i \in Osc |-> FALSE]
    /\ InitCalls

NextRecover ==
    \/ \E i \in Osc : ClockStep(i, MaxDelay + 1)
    \/ \E i \in Osc : SyncStep(i)

SpecRecover == InitRecover /\ [][NextRecover]_vars /\ WF_vars(NextRecover)

\* C6: with the register 0, test held and the countdown at N > 0, every
\* clock call decrements the countdown by one, the register is 0 as long as
\* the countdown is above 0 (the first N-1 calls) and nonzero once it is 0
\* (after the N-th call); so the register eventually is nonzero.
C6_LfsrRecovery ==
    /\ [](\A i \in Osc :
             /\ noise_overwrite_delay[i] > 0 => shift_register[i] = BV(0)
             /\ noise_overwrite_delay[i] = 0 => NonZero23(shift_register[i]))
    /\ [][\A i \in Osc :
             (ClockCall(i) /\ noise_overwrite_delay[i] > 0)
                 => noise_overwrite_delay'[i] = noise_overwrite_delay[i] - 1
         ]_vars
    /\ <>(\A i \in Osc : NonZero23(shift_register[i]))

\* The last call of a countdown of MaxDelay calls has just forced the
\* register.
C6_Witness ==
    \E i \in Osc :
        /\ i \in clocked
        /\ cycle = MaxDelay - 1
        /\ noise_overwrite_delay[i] = 0
        /\ shift_register[i] = BV(ForcedBits)
        /\ noise_output_cached[i] = 4080

(***************************************************************************)
(* One running oscillator with frequency 4096, from accumulator 0.         *)
(***************************************************************************)
WrapFreq == 2 ^ 12

InitWrap ==
    /\ n = 1
    /\ accumulator = [i \in Osc |-> 0]
    /\ freq = [i \in Osc |-> WrapFreq]
    /\ test = [i \in Osc |-> FALSE]
    /\ msb_rising = [i \in Osc |-> FALSE]
    /\ sync = [i \in Osc |-> FALSE]
    /\ pw = [i \in Osc |-> 0]
    /\ waveform = [i \in Osc |-> 0]
    /\ ring_mod = [i \in Osc |-> FALSE]
    /\ InitNoise
    /\ InitCalls

NextWrap ==
    \/ \E i \in Osc : ClockStep(i, 2 ^ 12 + WrapExtra)
    \/ \E i \in Osc : SyncStep(i)

SpecWrap == InitWrap /\ [][NextWrap]_vars

\* The clock() calls made so far for oscillator i.
Calls(i) == cycle + (IF i \in clocked THEN 1 ELSE 0)

\* C7: with frequency 4096, test clear, no sync reset and the accumulator
\* initially 0, the accumulator after k clock calls is (4096 * k) mod 2^24:
\* it is back at 0 after exactly 4096 calls and not before, and msb_rising
\* is false after each of the calls 1..2047 and true after call 2048.
C7_AccumulatorWrap ==
    \A i \in Osc :
        LET k == Calls(i)
        IN  /\ accumulator[i] = (4096 * k) % (2 ^ 24)
            /\ k \in 1 .. 4095 => accumulator[i] # 0
            /\ k = 4096 => accumulator[i] = 0
            /\ k \in 1 .. 2047 => ~msb_rising[i]
            /\ k = 2048 => msb_rising[i]

\* The 4096th call has just brought the accumulator back to 0.
C7_Witness ==
    \E i \in Osc : /\ Calls(i) = 4096
                   /\ i \in clocked
                   /\ accumulator_prev[i] = 2 ^ 24 - 4096
                   /\ accumulator[i] = 0

(***************************************************************************)
(* clock() and synchronize() called in any order.                          *)
(***************************************************************************)
FreeClock(i) ==
    /\ cycle < MaxCalls
    /\ clock(i)
    /\ cycle' = cycle + 1
    /\ clock_acc' = [clock_acc EXCEPT ![i] = accumulator'[i]]
    /\ UNCHANGED <<regs, clocked, synced, start_acc, out>>

FreeSynchronize(i) ==
    /\ cycle < MaxCalls
    /\ synchronize(i)
    /\ cycle' = cycle + 1
    /\ UNCHANGED <<regs, clocked, synced, clock_acc, start_acc, out>>

\* <<accumulator, freq>>: the smallest and the largest 16-bit frequencies,
\* accumulators at the MSB edge and at the top of the 24-bit range.
FreeInputs == {<<8388607, 1>>, <<16777215, 0>>, <<16777215, 65535>>}

InitFree ==
    /\ n \in 1 .. MaxOsc
    /\ \E in \in [Osc -> FreeInputs] :
           /\ accumulator = [i \in Osc |-> in[i][1]]
           /\ freq = [i \in Osc |-> in[i][2]]
    /\ sync \in [Osc -> BOOLEAN]
    /\ test = [i \in Osc |-> FALSE]
    /\ msb_rising = [i \in Osc |-> FALSE]
    /\ pw = [i \in Osc |-> 0]
    /\ waveform = [i \in Osc |-> 0]
    /\ ring_mod = [i \in Osc |-> FALSE]
    /\ InitNoise
    /\ InitCalls

NextFree ==
    \/ \E i \in Osc : FreeClock(i)
    \/ \E i \in Osc : FreeSynchronize(i)

SpecFree == InitFree /\ [][NextFree]_vars

\* C8: whatever the interleaving of clock and synchronize calls on the ring
\* and whatever the 16-bit frequencies, every accumulator is in 0..2^24-1.
C8_Accumulator24Bit ==
    \A i \in Osc : accumulator[i] \in 0 .. (2 ^ 24 - 1)

\* One accumulator has wrapped past 2^24 with the largest frequency while
\* another was zeroed by a synchronize call.
C8_Witness ==
    /\ \E i \in Osc :
           /\ freq[i] = 65535
           /\ accumulator_prev[i] = 16777215
           /\ accumulator[i] = 65534
    /\ \E i \in Osc :
           /\ clock_acc[i] # 0
           /\ accumulator[i] = 0

(***************************************************************************)
(* output(), read from oscillators between two cycles.                     *)
(***************************************************************************)
\* The caller reads the sample of oscillator i.
OutputStep(i) ==
    /\ out' = [out EXCEPT ![i] = output(i)]
    /\ UNCHANGED <<regs, accumulator, accumulator_prev, msb_rising, noise,
                   clocked, synced, cycle, clock_acc, start_acc>>

\* Accumulators whose top 12 bits are 0, 2047, 2048 and 4095.
OutAccInputs == {0, 8388607, 8388608, 16777215}

\* Pulse widths: always reached, the middle of the range, the largest.
PwInputs == {0, 2048, 4095}

\* Oscillator 0 takes every waveform and control setting; its neighbours in
\* the ring only differ in the MSB of their accumulator.
InitOut ==
    /\ n \in 1 .. MaxOsc
    /\ \E a \in OutAccInputs : \E b \in [Osc -> {0, 8388608}] :
           accumulator = [i \in Osc |-> IF i = 0 THEN a ELSE b[i]]
    /\ \E w \in 0 .. 15 :
           waveform = [i \in Osc |-> IF i = 0 THEN w ELSE 1]
    /\ \E w \in PwInputs : pw = [i \in Osc |-> w]
    /\ \E t \in BOOLEAN : test = [i \in Osc |-> i = 0 /\ t]
    /\ \E r \in BOOLEAN : ring_mod = [i \in Osc |-> r]
    /\ freq = [i \in Osc |-> 1]
    /\ msb_rising = [i \in Osc |-> FALSE]
    /\ sync = [i \in Osc |-> FALSE]
    /\ InitNoise
    /\ InitCalls

NextOut == \E i \in Osc : OutputStep(i)

SpecOut == InitOut /\ [][NextOut]_vars

\* output() of oscillator i has read a waveform table with a pulse code.
PulseRead(i) == out[i].src = "wftable" /\ waveform[i] \in 4 .. 7

\* C9: for every pulse waveform code 4..7 with pw = 2048 and test clear,
\* output() reads table code-1 (3..6, pulse gated low) when the top 12 bits
\* of the accumulator are 2047 and table code+3 (7..10, pulse gated high)
\* when they are 2048.
C9_PulseThresholdEdge ==
    \A i \in Osc :
        (PulseRead(i) /\ pw[i] = 2048 /\ ~test[i]) =>
            /\ accumulator[i] \div 4096 = 2047 =>
                   out[i].index = waveform[i] - 1 /\ out[i].index \in 3 .. 6
            /\ accumulator[i] \div 4096 = 2048 =>
                   out[i].index = waveform[i] + 3 /\ out[i].index \in 7 .. 10

\* A pulse oscillator at phase 2048 of pulse width 2048, test clear, has been
\* read from its gated-high table.
C9_Witness ==
    \E i \in Osc :
        /\ PulseRead(i) /\ pw[i] = 2048 /\ ~test[i]
        /\ accumulator[i] \div 4096 = 2048
        /\ out[i].index = waveform[i] + 3

\* C10: for every waveform code 4..7, if test is held or phase >= pw the
\* sample is read from a table of indices 3..6, and otherwise from a table
\* of indices 7..10.
C10_VariantSelection ==
    \A i \in Osc :
        PulseRead(i) =>
            IF test[i] \/ accumulator[i] \div 4096 >= pw[i]
            THEN out[i].index \in 3 .. 6
            ELSE out[i].index \in 7 .. 10

\* C10 as amended: for every waveform code 4..7, if test is held or
\* phase >= pw the sample is read from table code+3 (7..10, pulse gated
\* high), and otherwise from table code-1 (3..6, pulse gated low).
C10_VariantSelectionAmended ==
    \A i \in Osc :
        PulseRead(i) =>
            IF test[i] \/ accumulator[i] \div 4096 >= pw[i]
            THEN out[i].index = waveform[i] + 3 /\ out[i].index \in 7 .. 10
            ELSE out[i].index = waveform[i] - 1 /\ out[i].index \in 3 .. 6

\* A pulse table was read with test held and the phase below the pulse width.
C10_Witness ==
    \E i \in Osc :
        /\ PulseRead(i)
        /\ test[i]
        /\ accumulator[i] \div 4096 < pw[i]
        /\ out[i].index = waveform[i] + 3

(***************************************************************************)
(* Ring modulation and the non-table codes of output().                    *)
(***************************************************************************)
\* The 12-bit phase with its top bit (0x800) flipped.
TopBitFlipped(p) == (p + 2 ^ 11) % (2 ^ 12)

\* The sync source of oscillator i has bit 23 of its accumulator set.
SourceMsbSet(i) == accumulator[sync_source(i)] >= 2 ^ 23

\* C11: for every waveform code 1..7 with the triangle bit set (codes 1, 3,
\* 5 and 7), ring_mod set and bit 23 of the sync source's accumulator set,
\* output() indexes the table with the top bit of the 12-bit phase flipped;
\* in every other case of codes 1..7 the phase is used unflipped.
C11_RingModTriangleBit ==
    \A i \in Osc :
        out[i].src = "wftable" =>
            out[i].phase =
                IF (waveform[i] % 2) = 1 /\ ring_mod[i] /\ SourceMsbSet(i)
                THEN TopBitFlipped(accumulator[i] \div 2 ^ 12)
                ELSE accumulator[i] \div 2 ^ 12

\* C11 amended: the phase is flipped exactly for the codes with the triangle
\* bit set and the sawtooth bit clear (codes 1 and 5), when ring_mod is set
\* and bit 23 of the sync source's accumulator is set; for codes 2, 3, 4, 6
\* and 7, and for codes 1 and 5 otherwise, the phase is used unflipped.
C11_RingModTriangleOnly ==
    \A i \in Osc :
        out[i].src = "wftable" =>
            out[i].phase =
                IF waveform[i] \in {1, 5} /\ ring_mod[i] /\ SourceMsbSet(i)
                THEN TopBitFlipped(accumulator[i] \div 2 ^ 12)
                ELSE accumulator[i] \div 2 ^ 12

\* Oscillator 0 was read with code 5 (pulse + triangle) under ring
\* modulation with the source MSB set, and its phase 2047 came out as 4095.
C11_Witness ==
    /\ out[0].src = "wftable"
    /\ waveform[0] = 5
    /\ ring_mod[0]
    /\ SourceMsbSet(0)
    /\ accumulator[0] = 8388607
    /\ out[0].phase = 4095

(***************************************************************************)
(* output() read at any point of running cycles.                           *)
(***************************************************************************)
\* A running oscillator whose MSB rises on its first clock(), one whose
\* bit 19 rises on its first clock() (a noise step), and one held by test.
ReadStates == {<<8388607, 1, FALSE>>, <<524287, 1, FALSE>>, <<0, 1, TRUE>>}

\* Rings of one or two oscillators; oscillator 0 takes every waveform code.
InitRead ==
    /\ n \in {1, 2}
    /\ \E in \in [Osc -> ReadStates] :
           /\ accumulator = [i \in Osc |-> in[i][1]]
           /\ freq = [i \in Osc |-> in[i][2]]
           /\ test = [i \in Osc |-> in[i][3]]
    /\ sync \in [Osc -> BOOLEAN]
    /\ \E w \in 0 .. 15 :
           waveform = [i \in Osc |-> IF i = 0 THEN w ELSE 1]
    /\ \E w \in PwInputs : pw = [i \in Osc |-> w]
    /\ \E r \in BOOLEAN : ring_mod = [i \in Osc |-> r]
    /\ msb_rising = [i \in Osc |-> FALSE]
    /\ InitNoise
    /\ InitCalls

NextRead ==
    \E i \in Osc :
        \/ ClockStep(i, MaxCycles)
        \/ SyncStep(i)
        \/ OutputStep(i)

SpecRead == InitRead /\ [][NextRead]_vars

\* C12: output() changes no oscillator state; with waveform code 0 it
\* returns previous_dac, with code 8 noise_output_cached_dac and with every
\* code 9..15 wave_zero, whatever the accumulator, the pulse width, the
\* ring-mod bit and the noise register are and whatever clock() and
\* synchronize() did between two reads.
C12_NonTableOutput ==
    /\ [](\A i \in Osc :
             out[i].src # "none" =>
                 /\ waveform[i] = 0 => out[i] = [src |-> "previous_dac"]
                 /\ waveform[i] = 8 =>
                        out[i] = [src |-> "noise_output_cached_dac"]
                 /\ waveform[i] \in 9 .. 15 => out[i] = [src |-> "wave_zero"]
                 /\ waveform[i] \in 1 .. 7 => out[i].src = "wftable")
    /\ [][out' # out =>
              UNCHANGED <<regs, accumulator, accumulator_prev, msb_rising,
                          noise, clocked, synced, cycle, clock_acc,
                          start_acc>>]_vars

\* Oscillator 0 with code 9 was read after a cycle in which its MSB rose and
\* a hard sync reset its accumulator: the read gave wave_zero.
C12_Witness ==
    /\ CycleDone
    /\ waveform[0] = 9
    /\ out[0] = [src |-> "wave_zero"]
    /\ msb_rising[0]
    /\ accumulator[0] = 0

(***************************************************************************)
(* The noise generator: test hold, clocking trigger, LFSR step, cache.     *)
(***************************************************************************)
\* The fields of oscillator i that clock() can write.
ClockWrites(i) ==
    <<accumulator[i], accumulator_prev[i], msb_rising[i], shift_register[i],
      noise_output_cached[i], noise_output_cached_dac[i],
      noise_overwrite_delay[i]>>

\* The noise register of oscillator i and its two cached samples.
NoiseSample(i) ==
    <<shift_register[i], noise_output_cached[i], noise_output_cached_dac[i]>>

\* C13: a clock() call with test set leaves the accumulator, freq, pw and
\* waveform unchanged; it changes the shift register and the cached noise
\* sample only in the call that takes noise_overwrite_delay from 1 to 0,
\* where it ors 0x7ffffc into the register; with the countdown at 0 the
\* call changes nothing at all, and the countdown never goes below 0.
C13_TestHoldFrame ==
    [][\A i \in Osc :
           ClockCall(i) /\ test[i] =>
               /\ accumulator'[i] = accumulator[i]
               /\ UNCHANGED <<freq, pw, waveform>>
               /\ noise_overwrite_delay'[i] >= 0
               /\ noise_overwrite_delay[i] = 0 =>
                      ClockWrites(i)' = ClockWrites(i)
               /\ noise_overwrite_delay[i] > 1 =>
                      /\ NoiseSample(i)' = NoiseSample(i)
                      /\ noise_overwrite_delay'[i] =
                             noise_overwrite_delay[i] - 1
               /\ noise_overwrite_delay[i] = 1 =>
                      /\ noise_overwrite_delay'[i] = 0
                      /\ \A k \in RegIdx :
                             shift_register'[i][k] =
                                 IF k \in 2 .. 22 THEN 1
                                 ELSE shift_register[i][k]]_vars

\* The countdown of a test-held oscillator expired and further clock()
\* calls followed: the register that started as 0x000002 holds 0x7ffffe,
\* with bit 0 still clear.
C13_Witness ==
    \E i \in Osc :
        /\ test[i]
        /\ cycle = MaxDelay
        /\ i \in clocked
        /\ noise_overwrite_delay[i] = 0
        /\ Low23(shift_register[i]) = 8388606
        /\ Fits23(shift_register[i])

\* Bit 19 of an accumulator value.
Bit19(acc) == (acc \div 2 ^ 19) % 2

\* C14: a clock() call steps the noise shift register (exactly one LFSR
\* step) if and only if test is clear and bit 19 of the accumulator is 0
\* before freq is added and 1 after; in every other call with test clear the
\* shift register and the cached noise sample are unchanged, and a call
\* with test set never shifts the register.
C14_NoiseClockTrigger ==
    [][\A i \in Osc :
           ClockCall(i) =>
               LET after == (accumulator[i] + freq[i]) % 2 ^ 24
                   sr == shift_register[i]
               IN  IF test[i]
                   THEN \A k \in RegIdx :
                            shift_register'[i][k] \in {sr[k], 1}
                            /\ (k \notin 2 .. 22 =>
                                    shift_register'[i][k] = sr[k])
                   ELSE IF Bit19(accumulator[i]) = 0 /\ Bit19(after) = 1
                   THEN shift_register'[i] =
                            NoiseClear(NoiseShift(sr), waveform[i])
                   ELSE NoiseSample(i)' = NoiseSample(i)]_vars

\* A running oscillator's clock() call took bit 19 of its accumulator from
\* 0 to 1 and the register that held 0x000001 now holds 0x000002.
C14_Witness ==
    \E i \in Osc :
        /\ ~test[i]
        /\ i \in clocked
        /\ Bit19(accumulator_prev[i]) = 0
        /\ Bit19(accumulator[i]) = 1
        /\ Low23(shift_register[i]) = 2
        /\ Fits23(shift_register[i])

\* This step is a clock() call of oscillator i that clocks its noise
\* generator: test clear and bit 19 of the accumulator rising.
NoiseClocked(i) ==
    /\ ClockCall(i)
    /\ ~test[i]
    /\ Bit19(accumulator[i]) = 0
    /\ Bit19(accumulator'[i]) = 1

\* C15: when the noise generator is clocked with waveform code <= 8, bit 0
\* of the new register is bit 22 XOR bit 17 of the old one and bit i+1 of the
\* new register is bit i of the old one for every i in 0..21; so a register
\* with nonzero bits 0..22 does not reach all-zero bits 0..22 this way.
C15_LfsrStep ==
    [][\A i \in Osc :
           NoiseClocked(i) /\ waveform[i] <= 8 =>
               /\ shift_register'[i][0] =
                      (shift_register[i][22] + shift_register[i][17]) % 2
               /\ \A k \in 0 .. 21 :
                      shift_register'[i][k + 1] = shift_register[i][k]
               /\ NonZero23(shift_register[i]) =>
                      NonZero23(shift_register'[i])]_vars

\* The noise generator was clocked with code <= 8 from the register
\* 0x020000 (bit 17 only): it now holds 0x040001, the shifted bit and the
\* feedback bit.
C15_Witness ==
    \E i \in Osc :
        /\ ~test[i]
        /\ waveform[i] <= 8
        /\ i \in clocked
        /\ Bit19(accumulator_prev[i]) = 0
        /\ Bit19(accumulator[i]) = 1
        /\ Low23(shift_register[i]) = 2 ^ 18 + 1
        /\ Fits23(shift_register[i])

\* C16: whenever the noise generator is clocked with a waveform code in
\* 9..15, register bits 22, 20, 16, 13, 11, 7, 4 and 2 are all 0 after the
\* step and the cached noise sample is 0, so that the cached noise voltage
\* is wave_zero with no dac term added; with a code <= 8 no bit is
\* force-cleared: each of these bits holds what the shift moved into it.
C16_CombinedNoiseQuirk ==
    [][\A i \in Osc :
           NoiseClocked(i) =>
               IF waveform[i] \in 9 .. 15
               THEN /\ \A k \in {22, 20, 16, 13, 11, 7, 4, 2} :
                           shift_register'[i][k] = 0
                    /\ noise_output_cached'[i] = 0
                    /\ noise_output_cached_dac'[i] = {}
               ELSE \A k \in 1 .. 22 :
                        shift_register'[i][k] = shift_register[i][k - 1]]_vars

\* The noise generator was clocked with a code in 9..15 from the register
\* 0x7ffffc: the tapped bits are cleared, the cached sample is 0 and the
\* untapped bits 3, 5 and 21 survive.
C16_Witness ==
    \E i \in Osc :
        /\ ~test[i]
        /\ waveform[i] \in 9 .. 15
        /\ i \in clocked
        /\ cycle = 0
        /\ Bit19(accumulator_prev[i]) = 0
        /\ Bit19(accumulator[i]) = 1
        /\ noise_output_cached[i] = 0
        /\ noise_output_cached_dac[i] = {}
        /\ shift_register[i][3] = 1
        /\ shift_register[i][5] = 1
        /\ shift_register[i][21] = 1
        /\ shift_register[i][22] = 0

\* Register bit -> output bit of the noise sample.
TapPosition ==
    [k \in {22, 20, 16, 13, 11, 7, 4, 2} |->
        CASE k = 22 -> 11 [] k = 20 -> 10 [] k = 16 -> 9 [] k = 13 -> 8
          [] k = 11 -> 7 [] k = 7 -> 6 [] k = 4 -> 5 [] k = 2 -> 4]

\* Bit b of a 12-bit sample.
SampleBit(word, b) == (word \div 2 ^ b) % 2

\* C18: in every state reached through clock() and synchronize() calls from
\* a coherent start, the cached 12-bit noise sample is the tap permutation
\* of the current shift register (register bits 22, 20, 16, 13, 11, 7, 4, 2
\* at output bits 11, 10, 9, 8, 7, 6, 5, 4): it is below 4096, its low 4
\* bits are zero, and it is 0xFF0 right after the forced overwrite under
\* test.
C18_NoiseCacheCoherent ==
    /\ [](\A i \in Osc :
             /\ noise_output_cached[i] \in 0 .. 4095
             /\ noise_output_cached[i] % 16 = 0
             /\ \A k \in DOMAIN TapPosition :
                    SampleBit(noise_output_cached[i], TapPosition[k]) =
                        shift_register[i][k]
             /\ noise_output_cached_dac[i] =
                    {TapPosition[k] : k \in {t \in DOMAIN TapPosition :
                                                 shift_register[i][t] = 1}})
    /\ [][\A i \in Osc :
              ClockCall(i) /\ test[i] /\ noise_overwrite_delay[i] = 1 =>
                  noise_output_cached'[i] = 4095 - 15]_vars

\* The noise generator was clocked from the register 0x200000 (bit 21): the
\* register holds 0x400000 and the cached sample is 0x800.
C18_Witness ==
    \E i \in Osc :
        /\ ~test[i]
        /\ waveform[i] <= 8
        /\ i \in clocked
        /\ cycle = 0
        /\ Bit19(accumulator_prev[i]) = 0
        /\ Bit19(accumulator[i]) = 1
        /\ Low23(shift_register[i]) = 2 ^ 22
        /\ noise_output_cached[i] = 2 ^ 11

(***************************************************************************)
(* The two passes of a cycle against other call orders.                    *)
(***************************************************************************)
\* The accumulator oscillator d's clock() leaves when it is called on the
\* value d began the cycle with.
ClockedAcc(d) ==
    IF test[d] THEN start_acc[d] ELSE (start_acc[d] + freq[d]) % 2 ^ 24

\* msb_rising of oscillator d after that call (a test-held oscillator keeps
\* the flag it has).
ClockedMsb(d) ==
    IF test[d] THEN msb_rising[d]
    ELSE start_acc[d] < 2 ^ 23 /\ ClockedAcc(d) >= 2 ^ 23

\* synchronize() of d's sync source, called after every clock(), resets d.
TwoPhaseResets(d) ==
    LET s == sync_source(d)
    IN  /\ ClockedMsb(s)
        /\ sync[d]
        /\ ~(sync[s] /\ ClockedMsb(sync_source(s)))

\* The accumulator of oscillator d after clock() for every oscillator
\* followed by synchronize() for every oscillator.
TwoPhaseFinal(d) == IF TwoPhaseResets(d) THEN 0 ELSE ClockedAcc(d)

\* clock() of oscillator i when the cycle runs clock(0), synchronize(0),
\* clock(1), synchronize(1), ...
InterleavedClock(i) ==
    /\ clocked = 0 .. (i - 1)
    /\ synced = 0 .. (i - 1)
    /\ ClockStep(i, MaxCycles)

\* synchronize() of oscillator i right after its own clock().
InterleavedSync(i) ==
    /\ clocked = 0 .. i
    /\ synced = 0 .. (i - 1)
    /\ synchronize(i)
    /\ IF i = n - 1
       THEN clocked' = {} /\ synced' = {} /\ cycle' = cycle + 1
       ELSE synced' = synced \cup {i} /\ UNCHANGED <<clocked, cycle>>
    /\ UNCHANGED <<regs, clock_acc, start_acc, out>>

NextInterleaved ==
    \/ \E i \in Osc : InterleavedClock(i)
    \/ \E i \in Osc : InterleavedSync(i)

SpecInterleaved == Init /\ [][NextInterleaved]_vars

\* Oscillators 0 and 1 run, the MSB of oscillator 0 rises in this cycle,
\* oscillator 1 has sync set and a nonzero freq, oscillator 0 has sync clear.
ResetBeforeClock ==
    /\ n >= 2
    /\ ~test[0] /\ ~test[1]
    /\ start_acc[0] < 2 ^ 23
    /\ (start_acc[0] + freq[0]) % 2 ^ 24 >= 2 ^ 23
    /\ sync[1] /\ ~sync[0]
    /\ freq[1] \in 1 .. (2 ^ 24 - 1)

\* C17: running each oscillator's clock() immediately followed by its own
\* synchronize() is not equivalent to clock-all-then-synchronize-all: from
\* every state in which oscillator 0's MSB is about to rise and oscillator 1
\* is hard-synced to it, the interleaved cycle leaves freq in oscillator 1's
\* accumulator (reset first, clocked after) where the two passes leave 0.
C17_SchedulesDiffer ==
    CycleDone /\ ResetBeforeClock =>
        /\ TwoPhaseFinal(1) = 0
        /\ accumulator[1] = freq[1]
        /\ accumulator[1] # TwoPhaseFinal(1)

\* An interleaved cycle from such a state has run: oscillator 1 holds its
\* freq, not the 0 of the two-pass cycle.
C17_Witness ==
    /\ CycleDone
    /\ cycle = 1
    /\ ResetBeforeClock
    /\ accumulator[1] # 0
    /\ TwoPhaseFinal(1) = 0

\* This step is a synchronize() call of the synchronize pass.
SyncCall == clocked = Osc /\ (synced' # synced \/ cycle' # cycle)

\* C19: the synchronize pass is order-independent: once every oscillator
\* has been clocked, the accumulators depend only on which oscillators have
\* been synchronized so far, not on the order of the calls, and after the
\* whole pass they are what the cycle's start state determines; a
\* synchronize() call writes nothing but an accumulator and no flag it or
\* another synchronize() call reads.
C19_SyncOrderIndependent ==
    /\ [](clocked = Osc =>
             \A d \in Osc :
                 accumulator[d] =
                     IF sync_source(d) \in synced /\ TwoPhaseResets(d)
                     THEN 0
                     ELSE ClockedAcc(d))
    /\ [](CycleDone => \A d \in Osc : accumulator[d] = TwoPhaseFinal(d))
    /\ [][SyncCall =>
              UNCHANGED <<regs, msb_rising, accumulator_prev, noise,
                          clock_acc>>]_vars

\* A synchronize pass over three oscillators, all clocked with their MSB
\* rising and all with sync set, has ended after calls in some order: the
\* special case kept every accumulator.
C19_Witness ==
    /\ CycleDone
    /\ n = 3
    /\ \A d \in Osc : msb_rising[d] /\ sync[d] /\ ~test[d]
    /\ \A d \in Osc : accumulator[d] = 8388608

(***************************************************************************)
(* The table lookup of output().                                           *)
(***************************************************************************)
\* The waveform code and pulse comparison result a table index stands for.
TableOf(index) ==
    IF index <= 6 THEN [code |-> index + 1, gate |-> FALSE]
    ELSE [code |-> index - 3, gate |-> TRUE]

\* C20: for every waveform code 1..7 and every accumulator, pw, test,
\* ring_mod and sync-source state, the table index output() computes is in
\* 0..10 and the phase index in 0..4095; the table index determines the
\* code and, for codes 4..7, the pulse comparison result (codes 1..3 give
\* 0..2, codes 4..7 give one of two distinct indices each); the comparison
\* uses the top 12 bits of the accumulator before any ring-mod flip, so ring
\* modulation does not change the table.
C20_TableLookupSafe ==
    \A i \in Osc :
        out[i].src = "wftable" =>
            LET gate == test[i] \/ accumulator[i] \div 2 ^ 12 >= pw[i]
            IN  /\ waveform[i] \in 1 .. 7
                /\ out[i].index \in 0 .. 10
                /\ out[i].phase \in 0 .. 4095
                /\ waveform[i] \in 1 .. 3 => out[i].index = waveform[i] - 1
                /\ waveform[i] \in 4 .. 7 =>
                       out[i].index \in {waveform[i] - 1, waveform[i] + 3}
                /\ TableOf(out[i].index).code = waveform[i]
                /\ waveform[i] \in 4 .. 7 =>
                       TableOf(out[i].index).gate = gate

\* Oscillator 0 with code 5, pw 2048 and the accumulator 0x7fffff was read
\* under ring modulation with the source MSB set: the phase 2047 is below
\* the pulse width, the table is 4, and the flipped phase 4095 indexes it.
C20_Witness ==
    /\ out[0] = [src |-> "wftable", index |-> 4, phase |-> 4095]
    /\ waveform[0] = 5
    /\ pw[0] = 2048
    /\ ~test[0]
    /\ ring_mod[0]
    /\ accumulator[0] = 8388607
    /\ accumulator[sync_source(0)] >= 2 ^ 23

=============================================================================
